---- MODULE Spec2Model ----
(***************************************************************************)
(* State-machine model of the WalletConnectWallet facade (src/src/core.ts) *)
(* and of the chain-ID compatibility shim (src/dist/utils/chainIdPatch.js).*)
(*                                                                         *)
(* The facade runs on the JavaScript event loop: every action below is one *)
(* synchronous run of code between two suspension points (an await), or    *)
(* one event of an external collaborator (provider, modal, dynamic         *)
(* import).  A continuation released by a promise that the facade itself   *)
(* resolves (the connect gate, the modal-state subscription) is a          *)
(* microtask: it runs before any further event, which the guard            *)
(* ~MicrotaskPending on every other action expresses.                      *)
(***************************************************************************)
EXTENDS Integers, Sequences, FiniteSets, TLC

\* Number of independent callers of the facade's operations.
NumCallers == 2
\* Largest number of accounts a session advertises in its solana namespace.
MaxAccounts == 2
\* Largest number of transactions handed to signAllTransactions.
MaxTxs == 2

Callers == 1..NumCallers

\* The value of an unset optional field.
Undefined == [undefined |-> TRUE]
\* The value of an unset chain identifier.
NoChain == <<>>

\* A CAIP-2 chain identifier "solana:<reference>" is the pair of its parts.
WalletConnectChainID ==
    [Mainnet            |-> <<"solana", "5eykt4UsFv8P8NJdTREpY1vzqKqZKvdp">>,
     Devnet             |-> <<"solana", "EtWTRABZaYq6iMfeYKouRu166VU2xqa1">>,
     Deprecated_Mainnet |-> <<"solana", "4sGjMW1sUnHzSxGspuhpqLDx6wiyjNtZ">>,
     Deprecated_Devnet  |-> <<"solana", "8E9rvCKLFQia2Y35HXjjpWzj8weVo44K">>]

Chains == WalletConnectChainID

ChainIDs == {Chains.Mainnet, Chains.Devnet, Chains.Deprecated_Mainnet, Chains.Deprecated_Devnet}

WalletConnectRPCMethods ==
    [signTransaction        |-> "solana_signTransaction",
     signMessage            |-> "solana_signMessage",
     signAndSendTransaction |-> "solana_signAndSendTransaction",
     signAllTransactions    |-> "solana_signAllTransactions"]

Methods == {WalletConnectRPCMethods.signTransaction, WalletConnectRPCMethods.signMessage,
            WalletConnectRPCMethods.signAndSendTransaction,
            WalletConnectRPCMethods.signAllTransactions}

\* Error types the facade can surface.
ClientNotInitializedError == [name |-> "ClientNotInitializedError"]
WalletConnectionError == [name |-> "WalletConnectionError"]
WalletConnectFeatureNotSupportedError(method) ==
    [name |-> "WalletConnectFeatureNotSupportedError", method |-> method]
ChainError == [name |-> "Error", message |-> "Unable to get a default chain from the session"]
TypeError == [name |-> "TypeError"]
ImportError == [name |-> "ImportError"]
ModalError == [name |-> "ModalError"]
ProviderError == [name |-> "ProviderError"]
ProviderUndefinedError == [name |-> "Error", message |-> "Universal Provider was undefined"]

(***************************************************************************)
(* Sessions.  A CAIP-10 account "namespace:reference:address" is the       *)
(* triple of its parts; the address of the i-th account of a session is i, *)
(* so that the accounts of one session have different addresses.           *)
(***************************************************************************)
\* the chains of a session's accounts: up to MaxAccounts accounts on different chains
AccountLists ==
    UNION {{l \in [1..n -> ChainIDs] : \A i, j \in 1..n : i # j => l[i] # l[j]} :
           n \in 1..MaxAccounts}

MethodLists ==
    {{},
     {WalletConnectRPCMethods.signTransaction, WalletConnectRPCMethods.signMessage},
     Methods}

\* the session of a wallet with the accounts l (a list of chains) and the methods m
SessionOf(l, m) ==
    [solana |-> TRUE,
     accounts |-> [i \in DOMAIN l |-> <<l[i][1], l[i][2], i>>],
     methods |-> m]

\* The sessions the provider can hold: every list of accounts with the methods the
\* adapter proposes, every list of methods with one account, and a session that has
\* no solana namespace.
Sessions ==
    {SessionOf(l, {WalletConnectRPCMethods.signTransaction,
                   WalletConnectRPCMethods.signMessage}) : l \in AccountLists}
    \cup {SessionOf(<<Chains.Mainnet>>, m) : m \in MethodLists}
    \cup {[solana |-> FALSE, accounts |-> <<>>, methods |-> {}]}

\* parseAccountId(account).address
parseAccountId(account) == [namespace |-> account[1], reference |-> account[2],
                            address |-> account[3]]


(***************************************************************************)
(* Chain-ID compatibility shim (chainIdPatch.js).  What a function writes  *)
(* with console.warn is the field warn of its result: for                  *)
(* getChainsFromChainId the set of the chainWarns keys it wrote, for       *)
(* getDefaultChainFromSession whether it wrote chainWarns.wallet.          *)
(***************************************************************************)
\* getChainsFromChainId that lists the requested identifier first
getChainsFromChainId_RequestedFirst(chainId) ==
    IF chainId = Chains.Mainnet \/ chainId = Chains.Deprecated_Mainnet
    THEN [chains |-> IF chainId = Chains.Mainnet
                     THEN <<Chains.Mainnet, Chains.Deprecated_Mainnet>>
                     ELSE <<Chains.Deprecated_Mainnet, Chains.Mainnet>>,
          warn |-> IF chainId = Chains.Deprecated_Mainnet THEN {"mainnet"} ELSE {}]
    ELSE IF chainId = Chains.Deprecated_Devnet \/ chainId = Chains.Devnet
    THEN [chains |-> IF chainId = Chains.Devnet
                     THEN <<Chains.Devnet, Chains.Deprecated_Devnet>>
                     ELSE <<Chains.Deprecated_Devnet, Chains.Devnet>>,
          warn |-> {"devnet"}]
    ELSE [chains |-> <<chainId>>, warn |-> {}]

getChainsFromChainId(chainId) ==
    IF chainId = Chains.Mainnet \/ chainId = Chains.Deprecated_Mainnet
    THEN [chains |-> <<Chains.Mainnet, Chains.Deprecated_Mainnet>>,
          warn |-> IF chainId = Chains.Deprecated_Mainnet THEN {"mainnet"} ELSE {}]
    ELSE IF chainId = Chains.Deprecated_Devnet \/ chainId = Chains.Devnet
    THEN \* line 11 tests the constant Chains.Deprecated_Devnet, a non-empty string
         [chains |-> <<Chains.Devnet, Chains.Deprecated_Devnet>>, warn |-> {"devnet"}]
    ELSE [chains |-> <<chainId>>, warn |-> {}]

\* 'solana:' + account.split(':')[1], for every account of the solana namespace
SessionChains(sess) ==
    [i \in DOMAIN sess.accounts |-> <<"solana", sess.accounts[i][2]>>]

Thrown(error) == [ok |-> FALSE, error |-> error]
Ok(value) == [ok |-> TRUE, value |-> value]

\* getDefaultChainFromSession whose two fallback identifiers are exchanged
getDefaultChainFromSession_CrossedFallback(sess, selectedChain) ==
    LET found(chain) == \E i \in DOMAIN SessionChains(sess) :
                            SessionChains(sess)[i] = chain
    IN  IF selectedChain = Chains.Mainnet
        THEN IF ~sess.solana THEN Thrown(TypeError)
             ELSE IF found(Chains.Mainnet)
             THEN [ok |-> TRUE, chain |-> Chains.Mainnet, warn |-> FALSE]
             ELSE [ok |-> TRUE, chain |-> Chains.Deprecated_Devnet, warn |-> TRUE]
        ELSE IF selectedChain = Chains.Devnet
        THEN IF ~sess.solana THEN Thrown(TypeError)
             ELSE IF found(Chains.Devnet)
             THEN [ok |-> TRUE, chain |-> Chains.Devnet, warn |-> FALSE]
             ELSE [ok |-> TRUE, chain |-> Chains.Deprecated_Mainnet, warn |-> TRUE]
        ELSE Thrown(ChainError)

getDefaultChainFromSession(sess, selectedChain) ==
    LET found(chain) == \E i \in DOMAIN SessionChains(sess) :
                            SessionChains(sess)[i] = chain
    IN  IF selectedChain = Chains.Mainnet
        THEN IF ~sess.solana THEN Thrown(TypeError)    \* undefined.find
             ELSE IF found(Chains.Mainnet)
             THEN [ok |-> TRUE, chain |-> Chains.Mainnet, warn |-> FALSE]
             ELSE [ok |-> TRUE, chain |-> Chains.Deprecated_Mainnet, warn |-> TRUE]
        ELSE IF selectedChain = Chains.Devnet
        THEN IF ~sess.solana THEN Thrown(TypeError)
             ELSE IF found(Chains.Devnet)
             THEN [ok |-> TRUE, chain |-> Chains.Devnet, warn |-> FALSE]
             ELSE [ok |-> TRUE, chain |-> Chains.Deprecated_Devnet, warn |-> TRUE]
        ELSE Thrown(ChainError)

\* core.ts getConnectParams: the namespaces handed to the modal
getConnectParams(chainId) ==
    [chains |-> getChainsFromChainId(chainId).chains,
     methods |-> {WalletConnectRPCMethods.signTransaction, WalletConnectRPCMethods.signMessage}]

(***************************************************************************)
(* State of the facade and of its collaborators.                           *)
(***************************************************************************)
VARIABLES
    _UniversalProvider,     \* Undefined, or the provider: [session, defaultChain]
    _session,               \* Undefined, or the facade's mirrored session
    _modal,                 \* 0, or the index in modals of the facade's modal
    modals,                 \* the modal objects created so far: [namespaces, open]
    _network,               \* the facade's chain identifier
    _ConnectQueueResolver,  \* 0, or the caller whose gate promise the resolver releases
    initClient,             \* "pending", "resolved", "rejected": UniversalProvider.init
    pc,                     \* where each caller's operation is suspended
    local,                  \* the locals of each caller's operation
    ret,                    \* the settled promise of each caller's operation
    sent,                   \* the requests each caller's operation handed to the provider
    wallet,                 \* the session of the wallet the user pairs the provider with
    requested,              \* history: config.network
    selected,               \* history: the identifier the operation that has just
                            \* settled handed to getDefaultChainFromSession
    disconnected,           \* history: a disconnect() completed and no connect() has
                            \* resolved since
    replies,                \* the replies the provider gave to each caller's operation
    console,                \* the kinds of warning written with console.warn so far
    options                 \* history: config.options

vars == <<_UniversalProvider, _session, _modal, modals, _network, _ConnectQueueResolver, initClient,
          pc, local, ret, sent, wallet, requested, selected, disconnected, replies, console,
          options>>

facade == <<_UniversalProvider, _session, _modal, modals, _network, _ConnectQueueResolver>>
history == <<wallet, requested, options, selected, disconnected, console>>

NoLocal == [op |-> "none"]
NoRet == [op |-> "none", status |-> "pending", value |-> Undefined, error |-> Undefined]
Resolved(value) == [status |-> "resolved", value |-> value, error |-> Undefined]
Rejected(error) == [status |-> "rejected", value |-> Undefined, error |-> error]

\* config.options: with a project id, with an empty one and without one
Options == {[projectId |-> "abc"], [projectId |-> ""], [name |-> "dapp"]}

ProjectIdError == [name |-> "Error", message |-> "Project ID is undefined"]

\* a constructor that tests the project id against undefined only
constructor_TestsUndefined(opts) ==
    IF "projectId" \notin DOMAIN opts THEN Thrown(ProjectIdError)
    ELSE Ok([_projectId |-> opts.projectId])

\* lines 66-69: the constructor throws, or stores the project id and returns the facade
constructor(opts) ==
    IF "projectId" \notin DOMAIN opts THEN Thrown(ProjectIdError)
    ELSE IF opts.projectId = "" THEN Thrown(ProjectIdError)
    ELSE Ok([_projectId |-> opts.projectId])

\* The state when the constructor has returned or thrown: initClient is started and
\* the network is stored before the project id is tested.
Init ==
    /\ _UniversalProvider = Undefined
    /\ _session = Undefined
    /\ _modal = 0
    /\ modals = <<>>
    /\ _network \in ChainIDs
    /\ _ConnectQueueResolver = 0
    /\ initClient = "pending"
    /\ pc = [c \in Callers |-> "idle"]
    /\ local = [c \in Callers |-> NoLocal]
    /\ ret = [c \in Callers |-> NoRet]
    /\ sent = [c \in Callers |-> <<>>]
    /\ wallet \in Sessions
    /\ requested = _network
    /\ selected = NoChain
    /\ disconnected = FALSE
    /\ replies = [c \in Callers |-> <<>>]
    /\ console = {}
    /\ options \in Options

\* A continuation released by a promise of the facade is queued and runs first.
MicrotaskPending == \E c \in Callers : pc[c] \in {"gateResolved", "modalResolved"}

\* The facade expects one outstanding operation at a time; the misuse the model
\* admits is calling connect() again while a connect() waits on the gate.  Without a
\* facade, when the constructor has thrown, there is nothing to call.
CallAllowed(c) ==
    /\ constructor(options).ok
    /\ ~MicrotaskPending
    /\ pc[c] = "idle"
    /\ \A d \in Callers \ {c} : pc[d] \in {"idle", "gate"}

(***************************************************************************)
(* Accessors.                                                              *)
(***************************************************************************)
ProviderSession(provider) == IF provider = Undefined THEN Undefined ELSE provider.session

\* get client()
client(provider) ==
    IF provider # Undefined THEN Ok(provider) ELSE Thrown(ClientNotInitializedError)

\* get session()
session(sess) ==
    IF sess = Undefined THEN Thrown(ClientNotInitializedError) ELSE Ok(sess)

\* get publicKey()
publicKey(provider, sess) ==
    IF ProviderSession(provider) # Undefined /\ sess # Undefined
    THEN IF sess.solana /\ Len(sess.accounts) > 0
         THEN Ok(parseAccountId(sess.accounts[1]).address)
         ELSE Thrown(TypeError)
    ELSE Thrown(ClientNotInitializedError)

\* checkIfWalletSupportsMethod that reads this._session?.namespaces, not this.session
checkIfWalletSupportsMethod_Unchecked(sess, method) ==
    IF sess = Undefined \/ ~(sess.solana /\ method \in sess.methods)
    THEN Thrown(WalletConnectFeatureNotSupportedError(method))
    ELSE Ok(TRUE)

\* checkIfWalletSupportsMethod that reads namespaces['solana'].methods without the ?.
checkIfWalletSupportsMethod_NoOptionalChain(sess, method) ==
    IF ~session(sess).ok THEN session(sess)
    ELSE IF ~sess.solana THEN Thrown(TypeError)
    ELSE IF method \notin sess.methods
    THEN Thrown(WalletConnectFeatureNotSupportedError(method))
    ELSE Ok(TRUE)

\* checkIfWalletSupportsMethod(method): the error it throws, or ok
checkIfWalletSupportsMethod(sess, method) ==
    IF ~session(sess).ok THEN session(sess)
    ELSE IF ~(sess.solana /\ method \in sess.methods)
    THEN Thrown(WalletConnectFeatureNotSupportedError(method))
    ELSE Ok(TRUE)


(***************************************************************************)
(* Bookkeeping of a caller's operation.                                    *)
(***************************************************************************)
\* the operation op of caller c settles its promise with r
Settle(c, op, r) ==
    /\ pc' = [pc EXCEPT ![c] = "done"]
    /\ ret' = [ret EXCEPT ![c] = [op |-> op, status |-> r.status, value |-> r.value,
                                  error |-> r.error]]
    /\ local' = [local EXCEPT ![c] = NoLocal]

\* the operation of caller c suspends at an await
Suspend(c, where, loc) ==
    /\ pc' = [pc EXCEPT ![c] = where]
    /\ local' = [local EXCEPT ![c] = loc]
    /\ ret' = ret

(***************************************************************************)
(* connect()                                                               *)
(***************************************************************************)
\* connect() that hands the resolved chain to the provider and keeps its own network
Adopt_KeepNetwork(c, sess) ==
    LET r == getDefaultChainFromSession(sess, _network)
        pk == publicKey(_UniversalProvider, sess)
    IN  /\ _session' = sess
        /\ selected' = _network
        /\ _network' = _network
        /\ IF r.ok
           THEN /\ _UniversalProvider' = [_UniversalProvider EXCEPT !.defaultChain = r.chain]
                /\ Settle(c, "connect", IF pk.ok THEN Resolved([publicKey |-> pk.value])
                                        ELSE Rejected(pk.error))
                /\ disconnected' = (disconnected /\ ~pk.ok)
                /\ console' = IF r.warn THEN console \cup {"wallet"} ELSE console
           ELSE /\ Settle(c, "connect", Rejected(r.error))
                /\ UNCHANGED <<_UniversalProvider, disconnected, console>>

\* lines 83-89 and 104-113: adopt sess, resolve the network, return the public key
Adopt(c, sess) ==
    LET r == getDefaultChainFromSession(sess, _network)
        pk == publicKey(_UniversalProvider, sess)
    IN  /\ _session' = sess
        /\ selected' = _network
        /\ IF r.ok
           THEN /\ _network' = r.chain
                /\ _UniversalProvider' = [_UniversalProvider EXCEPT !.defaultChain = r.chain]
                /\ Settle(c, "connect", IF pk.ok THEN Resolved([publicKey |-> pk.value])
                                        ELSE Rejected(pk.error))
                /\ disconnected' = (disconnected /\ ~pk.ok)
                /\ console' = IF r.warn THEN console \cup {"wallet"} ELSE console
           ELSE /\ Settle(c, "connect", Rejected(r.error))
                /\ UNCHANGED <<_network, _UniversalProvider, disconnected, console>>

\* lines 95-103: open the modal and subscribe to its state
OpenModal(c) ==
    /\ modals' = [modals EXCEPT ![_modal'].open = TRUE]
    /\ Suspend(c, "modalWait", [op |-> "connect", modal |-> _modal'])

\* initModal(), lines 283-290, after the dynamic import
NewModal == [projectId |-> constructor(options).value._projectId,
             namespaces |-> getConnectParams(_network), open |-> FALSE]

\* lines 78-93: connect() past the gate, up to its next suspension
ConnectProceed(c) ==
    IF _UniversalProvider = Undefined
    THEN /\ Settle(c, "connect", Rejected(ProviderUndefinedError))
         /\ UNCHANGED <<facade, selected, disconnected, console>>
    ELSE IF _UniversalProvider.session # Undefined
    THEN /\ Adopt(c, _UniversalProvider.session)
         /\ UNCHANGED <<_modal, modals, _ConnectQueueResolver>>
    ELSE IF _modal # 0
    THEN /\ _modal' = _modal
         /\ OpenModal(c)
         /\ UNCHANGED <<_UniversalProvider, _session, _network, _ConnectQueueResolver,
                        selected, disconnected, console>>
    ELSE /\ Suspend(c, "importConnect", [op |-> "connect"])
         /\ UNCHANGED <<facade, selected, disconnected, console>>

\* connect() that leaves a resolver already stored in place
ConnectCall_KeepsFirst(c) ==
    /\ CallAllowed(c)
    /\ UNCHANGED <<initClient, sent, replies, wallet, requested, options>>
    /\ IF _UniversalProvider = Undefined
       THEN /\ _ConnectQueueResolver' = IF _ConnectQueueResolver = 0 THEN c
                                         ELSE _ConnectQueueResolver
            /\ Suspend(c, "gate", [op |-> "connect"])
            /\ UNCHANGED <<_UniversalProvider, _session, _modal, modals, _network, selected,
                           disconnected, console>>
       ELSE ConnectProceed(c)

\* lines 72-77: connect() is called
ConnectCall(c) ==
    /\ CallAllowed(c)
    /\ UNCHANGED <<initClient, sent, replies, wallet, requested, options>>
    /\ IF _UniversalProvider = Undefined
       THEN /\ _ConnectQueueResolver' = c
            /\ Suspend(c, "gate", [op |-> "connect"])
            /\ UNCHANGED <<_UniversalProvider, _session, _modal, modals, _network, selected,
                           disconnected, console>>
       ELSE ConnectProceed(c)

\* the gate promise was resolved: connect() resumes at line 78
ConnectResume(c) ==
    /\ pc[c] = "gateResolved"
    /\ ConnectProceed(c)
    /\ UNCHANGED <<initClient, sent, replies, wallet, requested, options>>

\* connect() that tests the session before it stores it
ConnectAfterModal_KeepSession(c) ==
    /\ pc[c] = "modalResolved"
    /\ UNCHANGED <<initClient, sent, replies, wallet, requested, options, _modal, modals,
                   _ConnectQueueResolver>>
    /\ IF local[c].session = Undefined
       THEN /\ Settle(c, "connect", Rejected(WalletConnectionError))
            /\ UNCHANGED <<_UniversalProvider, _session, _network, selected, disconnected,
                           console>>
       ELSE Adopt(c, local[c].session)

\* lines 104-117: the subscription promise was resolved with local[c].session
ConnectAfterModal(c) ==
    /\ pc[c] = "modalResolved"
    /\ UNCHANGED <<initClient, sent, replies, wallet, requested, options, _modal, modals,
                   _ConnectQueueResolver>>
    /\ IF local[c].session = Undefined
       THEN /\ _session' = Undefined
            /\ Settle(c, "connect", Rejected(WalletConnectionError))
            /\ UNCHANGED <<_UniversalProvider, _network, selected, disconnected, console>>
       ELSE Adopt(c, local[c].session)

(***************************************************************************)
(* initClient() and initModal()                                            *)
(***************************************************************************)
\* initClient() that stores the provider and leaves the stored resolver uncalled
InitClientResolve_NoWake(restored) ==
    /\ ~MicrotaskPending
    /\ initClient = "pending"
    /\ restored \in {Undefined, wallet}
    /\ initClient' = "resolved"
    /\ _UniversalProvider' = [session |-> restored, defaultChain |-> NoChain]
    /\ UNCHANGED <<_session, _modal, modals, _network, _ConnectQueueResolver, pc, local, ret,
                   sent, replies, history>>

\* lines 271-273: UniversalProvider.init resolved, possibly with a restored session
InitClientResolve(restored) ==
    /\ ~MicrotaskPending
    /\ initClient = "pending"
    /\ restored \in {Undefined, wallet}
    /\ initClient' = "resolved"
    /\ _UniversalProvider' = [session |-> restored, defaultChain |-> NoChain]
    /\ IF _ConnectQueueResolver # 0
       THEN pc' = [pc EXCEPT ![_ConnectQueueResolver] = "gateResolved"]
       ELSE pc' = pc
    /\ UNCHANGED <<_session, _modal, modals, _network, _ConnectQueueResolver, local, ret,
                   sent, replies, history>>

\* line 271: UniversalProvider.init rejected
InitClientReject ==
    /\ ~MicrotaskPending
    /\ initClient = "pending"
    /\ initClient' = "rejected"
    /\ UNCHANGED <<facade, pc, local, ret, sent, replies, history>>

\* lines 281-290 and the caller's continuation: the dynamic import resolved
ImportResolve(c) ==
    /\ ~MicrotaskPending
    /\ pc[c] \in {"importConnect", "importDisconnect"}
    /\ modals' = IF pc[c] = "importConnect"
                 THEN Append(modals, [NewModal EXCEPT !.open = TRUE])
                 ELSE Append(modals, NewModal)
    /\ _modal' = Len(modals')
    /\ IF pc[c] = "importConnect"
       THEN Suspend(c, "modalWait", [op |-> "connect", modal |-> _modal'])
       ELSE Suspend(c, "modalDisconnect", [op |-> "disconnect", modal |-> _modal'])
    /\ console' = console \cup getChainsFromChainId(_network).warn
    /\ UNCHANGED <<_UniversalProvider, _session, _network, _ConnectQueueResolver,
                   initClient, sent, replies, wallet, requested, options, selected,
                   disconnected>>

\* line 281: the dynamic import rejected
ImportReject(c) ==
    /\ ~MicrotaskPending
    /\ pc[c] \in {"importConnect", "importDisconnect"}
    /\ Settle(c, local[c].op, Rejected(ImportError))
    /\ UNCHANGED <<facade, initClient, sent, replies, history>>

(***************************************************************************)
(* The modal and the wallet behind it.                                     *)
(***************************************************************************)
\* the wallet approves the session proposed through an open modal
WalletApprove(m) ==
    /\ ~MicrotaskPending
    /\ m \in DOMAIN modals /\ modals[m].open
    /\ _UniversalProvider # Undefined /\ _UniversalProvider.session = Undefined
    /\ _UniversalProvider' = [_UniversalProvider EXCEPT !.session = wallet]
    /\ UNCHANGED <<_session, _modal, modals, _network, _ConnectQueueResolver, initClient,
                   pc, local, ret, sent, replies, history>>

\* lines 98-102: the modal reports open = false to its subscribers
ModalClose(m) ==
    /\ ~MicrotaskPending
    /\ m \in DOMAIN modals /\ modals[m].open
    /\ modals' = [modals EXCEPT ![m].open = FALSE]
    /\ LET subscribers == {c \in Callers : pc[c] = "modalWait" /\ local[c].modal = m}
       IN  /\ pc' = [c \in Callers |-> IF c \in subscribers THEN "modalResolved" ELSE pc[c]]
           /\ local' = [c \in Callers |->
                           IF c \in subscribers
                           THEN [op |-> "connect", modal |-> m,
                                 session |-> ProviderSession(_UniversalProvider)]
                           ELSE local[c]]
    /\ UNCHANGED <<_UniversalProvider, _session, _modal, _network, _ConnectQueueResolver,
                   initClient, ret, sent, replies, history>>

\* the wallet deletes the session, or the session expires
SessionDelete ==
    /\ ~MicrotaskPending
    /\ ProviderSession(_UniversalProvider) # Undefined
    /\ _UniversalProvider' = [_UniversalProvider EXCEPT !.session = Undefined]
    /\ UNCHANGED <<_session, _modal, modals, _network, _ConnectQueueResolver, initClient,
                   pc, local, ret, sent, replies, history>>

(***************************************************************************)
(* disconnect()                                                            *)
(***************************************************************************)
\* disconnect() that tests the facade's session in place of the provider's
DisconnectCall_TestsFacade(c) ==
    /\ CallAllowed(c)
    /\ IF _session # Undefined
       THEN IF _modal # 0
            THEN Suspend(c, "modalDisconnect", [op |-> "disconnect", modal |-> _modal])
            ELSE Suspend(c, "importDisconnect", [op |-> "disconnect"])
       ELSE Settle(c, "disconnect", Rejected(ClientNotInitializedError))
    /\ UNCHANGED <<facade, initClient, sent, replies, history>>

\* lines 120-125 and 127-129
DisconnectCall(c) ==
    /\ CallAllowed(c)
    /\ IF ProviderSession(_UniversalProvider) # Undefined
       THEN IF _modal # 0
            THEN Suspend(c, "modalDisconnect", [op |-> "disconnect", modal |-> _modal])
            ELSE Suspend(c, "importDisconnect", [op |-> "disconnect"])
       ELSE Settle(c, "disconnect", Rejected(ClientNotInitializedError))
    /\ UNCHANGED <<facade, initClient, sent, replies, history>>

\* lines 125-126: the modal's disconnect resolved, having disconnected the provider
ModalDisconnectResolve(c) ==
    /\ ~MicrotaskPending
    /\ pc[c] = "modalDisconnect"
    /\ _UniversalProvider' = [_UniversalProvider EXCEPT !.session = Undefined]
    /\ _session' = Undefined
    /\ Settle(c, "disconnect", Resolved(Undefined))
    /\ disconnected' = TRUE
    /\ UNCHANGED <<_modal, modals, _network, _ConnectQueueResolver, initClient, sent, replies,
                   wallet, requested, options, selected, console>>

\* line 125: the modal's disconnect rejected
ModalDisconnectReject(c) ==
    /\ ~MicrotaskPending
    /\ pc[c] = "modalDisconnect"
    /\ Settle(c, "disconnect", Rejected(ModalError))
    /\ UNCHANGED <<facade, initClient, sent, replies, history>>


(***************************************************************************)
(* Transactions and their wire form.  A transaction is its class (the      *)
(* field versioned: VersionedTransaction or Transaction), the version of   *)
(* its message and its signatures; the base64 string of a serialized       *)
(* transaction is the record of what the bytes hold.                       *)
(***************************************************************************)
DecodeError == [name |-> "Error", message |-> "deserialize"]

Transactions == {[versioned |-> FALSE, version |-> "legacy", signatures |-> {}],
                 [versioned |-> TRUE, version |-> "v0", signatures |-> {}]}

TxLists == UNION {[1..n -> Transactions] : n \in 0..MaxTxs}

isVersionedTransaction(transaction) == transaction.versioned

\* base58.decode(string)
base58decode(string) == [bytes |-> string]

\* lines 293-295
serialize(transaction) ==
    [base64 |-> [version |-> transaction.version, signatures |-> transaction.signatures]]

\* lines 297-303: VersionedTransaction.deserialize reads both versions of message,
\* Transaction.from only the legacy one; Buffer.from(undefined) throws
deserialize(serializedTransaction, versioned) ==
    IF serializedTransaction = Undefined THEN Thrown(TypeError)
    ELSE IF versioned
    THEN Ok([versioned |-> TRUE, version |-> serializedTransaction.base64.version,
             signatures |-> serializedTransaction.base64.signatures])
    ELSE IF serializedTransaction.base64.version = "legacy"
    THEN Ok([versioned |-> FALSE, version |-> "legacy",
             signatures |-> serializedTransaction.base64.signatures])
    ELSE Thrown(DecodeError)

\* transaction.addSignature(publicKey, signature)
addSignature(transaction, pubkey, signature) ==
    [transaction EXCEPT !.signatures = @ \cup {[publicKey |-> pubkey, signature |-> signature]}]

(***************************************************************************)
(* The provider's replies.                                                 *)
(***************************************************************************)
\* the serialized transactions a wallet returns: signed, of either version
SignedTransactions ==
    {[base64 |-> [version |-> v,
                  signatures |-> {[publicKey |-> 1, signature |-> base58decode("sig")]}]] :
     v \in {"legacy", "v0"}}

\* the results of the four RPC methods
RepliesTo(method) ==
    IF method = WalletConnectRPCMethods.signTransaction
    THEN {[signature |-> "sig", transaction |-> x] : x \in SignedTransactions \cup {Undefined}}
    ELSE IF method = WalletConnectRPCMethods.signAllTransactions
    THEN {[transactions |-> l] : l \in UNION {[1..n -> SignedTransactions] : n \in 0..MaxTxs}}
    ELSE {[signature |-> "sig"]}

(***************************************************************************)
(* Sign and send operations.  A request is [method, chainId, params].      *)
(***************************************************************************)
SingleMethods == {WalletConnectRPCMethods.signTransaction, WalletConnectRPCMethods.signMessage,
                  WalletConnectRPCMethods.signAndSendTransaction}

\* the params of the request of a single-transaction method, lines 175-182, 206-209, 226
Params(method, transaction) ==
    IF method = WalletConnectRPCMethods.signTransaction
    THEN [legacyTransaction |-> IF isVersionedTransaction(transaction) THEN Undefined
                                ELSE transaction,
          transaction |-> serialize(transaction)]
    ELSE IF method = WalletConnectRPCMethods.signMessage
    THEN [pubkey |-> publicKey(_UniversalProvider, _session).value]
    ELSE [transaction |-> serialize(transaction)]

Request(method, params) == [method |-> method, chainId |-> _network, params |-> params]

\* the synchronous part of signTransaction, signMessage and signAndSendTransaction:
\* the error thrown before the request is handed to the provider, or ok
SignPrefix(method) ==
    LET chk == checkIfWalletSupportsMethod(_session, method)
        pk == publicKey(_UniversalProvider, _session)
    IN  IF ~chk.ok THEN chk
        ELSE IF ~client(_UniversalProvider).ok THEN client(_UniversalProvider)
        ELSE IF ~session(_session).ok THEN session(_session)
        ELSE IF method = WalletConnectRPCMethods.signMessage /\ ~pk.ok THEN pk
        ELSE Ok(TRUE)

\* signTransaction that attaches the reply's signature without a look at its transaction
signTransactionReturn_PrefersSignature(transaction, reply) ==
    LET pk == publicKey(_UniversalProvider, _session)
    IN  IF ~pk.ok THEN pk
        ELSE Ok(addSignature(transaction, pk.value, base58decode(reply.signature)))

\* lines 186-192: what signTransaction(transaction) returns or throws after the reply
signTransactionReturn(transaction, reply) ==
    LET pk == publicKey(_UniversalProvider, _session)
    IN  IF reply.transaction # Undefined
        THEN deserialize(reply.transaction, isVersionedTransaction(transaction))
        ELSE IF ~pk.ok THEN pk
        ELSE Ok(addSignature(transaction, pk.value, base58decode(reply.signature)))

\* signAllTransactions that decodes every returned transaction as a legacy one
signAllTransactionsReturn_Legacy(transactions, reply) ==
    LET at(index) == IF index \in DOMAIN reply.transactions
                     THEN reply.transactions[index] ELSE Undefined
        decoded == [index \in DOMAIN transactions |-> deserialize(at(index), FALSE)]
        failed == {index \in DOMAIN transactions : ~decoded[index].ok}
    IN  IF failed # {}
        THEN decoded[CHOOSE index \in failed : \A other \in failed : index <= other]
        ELSE Ok([index \in DOMAIN transactions |-> decoded[index].value])

\* lines 250-256: what signAllTransactions returns or throws after the batch reply
signAllTransactionsReturn(transactions, reply) ==
    LET at(index) == IF index \in DOMAIN reply.transactions
                     THEN reply.transactions[index] ELSE Undefined
        decoded == [index \in DOMAIN transactions |->
                       deserialize(at(index), isVersionedTransaction(transactions[index]))]
        failed == {index \in DOMAIN transactions : ~decoded[index].ok}
    IN  IF failed # {}
        THEN decoded[CHOOSE index \in failed : \A other \in failed : index <= other]
        ELSE Ok([index \in DOMAIN transactions |-> decoded[index].value])

\* a settled promise from a returned value or a thrown error
SettleWith(c, op, r) ==
    Settle(c, op, IF r.ok THEN Resolved(r.value) ELSE Rejected(r.error))

\* lines 160-184, 195-211, 216-228
SignCall(c, method, transaction) ==
    /\ CallAllowed(c)
    /\ IF SignPrefix(method).ok
       THEN /\ sent' = [sent EXCEPT ![c] = Append(@, Request(method, Params(method, transaction)))]
            /\ Suspend(c, "request", [op |-> method, transaction |-> transaction])
       ELSE /\ sent' = sent
            /\ Settle(c, method, Rejected(SignPrefix(method).error))
    /\ UNCHANGED <<facade, initClient, replies, history>>

\* lines 259-263 that push the signed transactions in front of the list
Fallback_Unshift(c, transactions, signedTransactions) ==
    LET i == Len(signedTransactions) + 1
        p == SignPrefix(WalletConnectRPCMethods.signTransaction)
        reversed == [k \in DOMAIN signedTransactions |->
                        signedTransactions[Len(signedTransactions) + 1 - k]]
    IN  IF i > Len(transactions)
        THEN /\ sent' = sent
             /\ Settle(c, WalletConnectRPCMethods.signAllTransactions,
                       Resolved([transactions |-> reversed]))
        ELSE IF p.ok
        THEN /\ sent' = [sent EXCEPT ![c] =
                            Append(@, Request(WalletConnectRPCMethods.signTransaction,
                                              Params(WalletConnectRPCMethods.signTransaction,
                                                     transactions[i])))]
             /\ Suspend(c, "request", [op |-> WalletConnectRPCMethods.signAllTransactions,
                                       fallback |-> TRUE, transactions |-> transactions,
                                       signedTransactions |-> signedTransactions])
        ELSE /\ sent' = sent
             /\ Settle(c, WalletConnectRPCMethods.signAllTransactions, Rejected(p.error))

\* a fallback that sends the solana_signTransaction requests itself, without the
\* capability check of signTransaction
Fallback_Unchecked(c, transactions, signedTransactions) ==
    LET i == Len(signedTransactions) + 1
    IN  IF i > Len(transactions)
        THEN /\ sent' = sent
             /\ Settle(c, WalletConnectRPCMethods.signAllTransactions,
                       Resolved([transactions |-> signedTransactions]))
        ELSE /\ sent' = [sent EXCEPT ![c] =
                            Append(@, Request(WalletConnectRPCMethods.signTransaction,
                                              Params(WalletConnectRPCMethods.signTransaction,
                                                     transactions[i])))]
             /\ Suspend(c, "request", [op |-> WalletConnectRPCMethods.signAllTransactions,
                                       fallback |-> TRUE, transactions |-> transactions,
                                       signedTransactions |-> signedTransactions])

\* lines 259-263: the sequential fallback, with the transactions signed so far; the
\* next iteration calls signTransaction, which runs up to its request
Fallback(c, transactions, signedTransactions) ==
    LET i == Len(signedTransactions) + 1
        p == SignPrefix(WalletConnectRPCMethods.signTransaction)
    IN  IF i > Len(transactions)
        THEN /\ sent' = sent
             /\ Settle(c, WalletConnectRPCMethods.signAllTransactions,
                       Resolved([transactions |-> signedTransactions]))
        ELSE IF p.ok
        THEN /\ sent' = [sent EXCEPT ![c] =
                            Append(@, Request(WalletConnectRPCMethods.signTransaction,
                                              Params(WalletConnectRPCMethods.signTransaction,
                                                     transactions[i])))]
             /\ Suspend(c, "request", [op |-> WalletConnectRPCMethods.signAllTransactions,
                                       fallback |-> TRUE, transactions |-> transactions,
                                       signedTransactions |-> signedTransactions])
        ELSE /\ sent' = sent
             /\ Settle(c, WalletConnectRPCMethods.signAllTransactions, Rejected(p.error))

\* lines 233-248 and 257-266
SignAllCall(c, transactions) ==
    /\ CallAllowed(c)
    /\ LET p == SignPrefix(WalletConnectRPCMethods.signAllTransactions)
       IN  IF p.ok
           THEN /\ sent' = [sent EXCEPT ![c] =
                               Append(@, Request(WalletConnectRPCMethods.signAllTransactions,
                                                 [transactions |->
                                                     [i \in DOMAIN transactions |->
                                                         serialize(transactions[i])]]))]
                /\ Suspend(c, "request", [op |-> WalletConnectRPCMethods.signAllTransactions,
                                          fallback |-> FALSE, transactions |-> transactions,
                                          signedTransactions |-> <<>>])
           ELSE IF p.error.name = "WalletConnectFeatureNotSupportedError"
           THEN Fallback(c, transactions, <<>>)
           ELSE /\ sent' = sent
                /\ Settle(c, WalletConnectRPCMethods.signAllTransactions, Rejected(p.error))
    /\ UNCHANGED <<facade, initClient, replies, history>>

\* lines 167, 186-192, 198, 213, 219, 230, 239, 250-256 and 261-263: the provider
\* answered the request of caller c with reply
RequestResolve(c, reply) ==
    /\ ~MicrotaskPending
    /\ pc[c] = "request"
    /\ reply \in RepliesTo(sent[c][Len(sent[c])].method)
    /\ replies' = [replies EXCEPT ![c] = Append(@, reply)]
    /\ IF local[c].op = WalletConnectRPCMethods.signAllTransactions
       THEN IF local[c].fallback
            THEN LET transaction == local[c].transactions[Len(local[c].signedTransactions) + 1]
                     r == signTransactionReturn(transaction, reply)
                 IN  IF r.ok
                     THEN Fallback(c, local[c].transactions,
                                   Append(local[c].signedTransactions, r.value))
                     ELSE /\ sent' = sent
                          /\ Settle(c, local[c].op, Rejected(r.error))
            ELSE LET r == signAllTransactionsReturn(local[c].transactions, reply)
                 IN  /\ sent' = sent
                     /\ Settle(c, local[c].op,
                               IF r.ok THEN Resolved([transactions |-> r.value])
                               ELSE Rejected(r.error))
       ELSE /\ sent' = sent
            /\ IF local[c].op = WalletConnectRPCMethods.signTransaction
               THEN SettleWith(c, local[c].op,
                               signTransactionReturn(local[c].transaction, reply))
               ELSE IF local[c].op = WalletConnectRPCMethods.signMessage
               THEN Settle(c, local[c].op, Resolved(base58decode(reply.signature)))
               ELSE Settle(c, local[c].op, Resolved([signature |-> reply.signature]))
    /\ UNCHANGED <<facade, initClient, history>>

\* a catch block of signAllTransactions that falls back on every error of the request
RequestReject_FallsBack(c) ==
    /\ ~MicrotaskPending
    /\ pc[c] = "request"
    /\ IF local[c].op = WalletConnectRPCMethods.signAllTransactions /\ ~local[c].fallback
       THEN Fallback(c, local[c].transactions, <<>>)
       ELSE /\ sent' = sent
            /\ Settle(c, local[c].op, Rejected(ProviderError))
    /\ UNCHANGED <<facade, initClient, replies, history>>

\* lines 167, 198, 219, 239 and 266: the provider rejected the request of caller c
RequestReject(c) ==
    /\ ~MicrotaskPending
    /\ pc[c] = "request"
    /\ Settle(c, local[c].op, Rejected(ProviderError))
    /\ UNCHANGED <<facade, initClient, sent, replies, history>>

\* the caller has observed the settled promise and is free to call again
Return(c) ==
    /\ ~MicrotaskPending
    /\ pc[c] = "done"
    /\ pc' = [pc EXCEPT ![c] = "idle"]
    /\ ret' = [ret EXCEPT ![c] = NoRet]
    /\ sent' = [sent EXCEPT ![c] = <<>>]
    /\ selected' = NoChain
    /\ replies' = [replies EXCEPT ![c] = <<>>]
    /\ UNCHANGED <<facade, initClient, local, wallet, requested, options, disconnected, console>>

Next ==
    \/ \E c \in Callers : ConnectCall(c)
    \/ \E c \in Callers : ConnectResume(c)
    \/ \E c \in Callers : ConnectAfterModal(c)
    \/ \E restored \in Sessions \cup {Undefined} : InitClientResolve(restored)
    \/ InitClientReject
    \/ \E c \in Callers : ImportResolve(c)
    \/ \E c \in Callers : ImportReject(c)
    \/ \E m \in 1..NumCallers : WalletApprove(m)
    \/ \E m \in 1..NumCallers : ModalClose(m)
    \/ SessionDelete
    \/ \E c \in Callers : DisconnectCall(c)
    \/ \E c \in Callers : ModalDisconnectResolve(c)
    \/ \E c \in Callers : ModalDisconnectReject(c)
    \/ \E c \in Callers, method \in SingleMethods, transaction \in Transactions :
           SignCall(c, method, transaction)
    \/ \E c \in Callers, transactions \in TxLists : SignAllCall(c, transactions)
    \/ \E c \in Callers, method \in Methods :
           \E reply \in RepliesTo(method) : RequestResolve(c, reply)
    \/ \E c \in Callers : RequestReject(c)
    \/ \E c \in Callers : Return(c)

Spec == Init /\ [][Next]_vars


(***************************************************************************)
(* Properties.                                                             *)
(***************************************************************************)
\* caller c calls connect() in this step
ConnectCalled(c) ==
    /\ pc[c] = "idle" /\ pc'[c] # "idle"
    /\ local'[c].op = "connect" \/ ret'[c].op = "connect"

\* connect() of caller c passes the gate in this step
PassesGate(c) ==
    \/ ConnectCalled(c) /\ _UniversalProvider # Undefined
    \/ pc[c] = "gateResolved" /\ pc'[c] # "gateResolved"

\* connect() of caller c resolves in this step
ConnectResolves(c) ==
    /\ pc[c] # "done" /\ pc'[c] = "done"
    /\ ret'[c].op = "connect" /\ ret'[c].status = "resolved"

GateWaiters == {c \in Callers : pc[c] = "gate"}

\* C1, while initialization has not completed: every connect() called so far is
\* suspended on the gate, no modal exists and no session is adopted.
C1_Suspended ==
    _UniversalProvider = Undefined =>
        /\ modals = <<>> /\ _modal = 0 /\ _session = Undefined
        /\ \A c \in Callers : pc[c] \in {"idle", "gate", "done"}
        /\ \A c \in Callers : pc[c] = "done" => ret[c].op # "connect"

\* C1, the steps of the gate: a connect() leaves the gate only in the step in which
\* initialization completes; a connect() that is the only one waiting is released by
\* that step; a released connect() proceeds past the gate in the very next step; and
\* a connect() called after initialization has completed does not wait on the gate.
C1_GateStep ==
    \A c \in Callers :
        /\ (pc[c] = "gate" /\ pc'[c] # "gate") =>
               /\ initClient = "pending" /\ initClient' = "resolved"
               /\ _UniversalProvider' # Undefined
               /\ pc'[c] = "gateResolved"
        /\ (initClient = "pending" /\ initClient' = "resolved" /\ GateWaiters = {c}) =>
               pc'[c] = "gateResolved"
        /\ pc[c] = "gateResolved" => pc'[c] \notin {"gate", "gateResolved"}
        /\ (ConnectCalled(c) /\ _UniversalProvider # Undefined) =>
               pc'[c] \notin {"gate", "gateResolved"}
        /\ (ConnectCalled(c) /\ _UniversalProvider = Undefined) => pc'[c] = "gate"

\* C1: for a single connect() call and any order of the call and the completion of
\* the provider's initialization, the call waits on the gate exactly while
\* initialization has not completed, and the completion always releases it.
C1_ConnectGate == []C1_Suspended /\ [][C1_GateStep]_vars

\* a connect() that waited on the gate has been released by initClient
C1_Witness ==
    \E c \in Callers : pc[c] = "gateResolved" /\ _UniversalProvider # Undefined

\* C2: a connect() that passes the gate while the provider holds a session (with a
\* solana account) adopts that session, leaves the modal alone and resolves with the
\* public key of the session's first solana account.
C2_AdoptsLiveSession ==
    [][\A c \in Callers :
          (/\ PassesGate(c)
           /\ ProviderSession(_UniversalProvider) # Undefined
           /\ ProviderSession(_UniversalProvider).solana) =>
              /\ _session' = _UniversalProvider.session
              /\ _modal' = _modal /\ modals' = modals
              /\ pc'[c] = "done"
              /\ ret'[c].op = "connect" /\ ret'[c].status = "resolved"
              /\ ret'[c].value =
                     [publicKey |-> parseAccountId(_UniversalProvider.session.accounts[1]).address]
      ]_vars

\* C3: a connect() that passes the gate while the provider holds no session opens the
\* modal (once the modal is loaded) without adopting or settling anything, stays
\* suspended until the modal reports closed, and then, if the provider holds no
\* session, fails with WalletConnectionError, the facade holding no session and the
\* network being as before.
C3_ModalBranch ==
    [][\A c \in Callers :
          /\ (PassesGate(c) /\ ProviderSession(_UniversalProvider) = Undefined) =>
                 /\ pc'[c] \in {"importConnect", "modalWait"}
                 /\ pc'[c] = "modalWait" =>
                        _modal' # 0 /\ local'[c].modal = _modal' /\ modals'[_modal'].open
                 /\ _session' = _session /\ _network' = _network
          /\ (pc[c] = "importConnect" /\ pc'[c] # "importConnect") =>
                 \/ /\ pc'[c] = "modalWait"
                    /\ _modal' # 0 /\ local'[c].modal = _modal' /\ modals'[_modal'].open
                    /\ _session' = _session /\ _network' = _network
                 \/ /\ pc'[c] = "done"
                    /\ ret'[c].status = "rejected" /\ ret'[c].error = ImportError
          /\ (pc[c] = "modalWait" /\ pc'[c] # "modalWait") =>
                 /\ pc'[c] = "modalResolved"
                 /\ modals[local[c].modal].open /\ ~modals'[local[c].modal].open
                 /\ local'[c].session = ProviderSession(_UniversalProvider)
          /\ (pc[c] = "modalResolved" /\ pc'[c] # "modalResolved"
                 /\ local[c].session = Undefined) =>
                 /\ pc'[c] = "done"
                 /\ ret'[c] = [op |-> "connect", status |-> "rejected", value |-> Undefined,
                               error |-> WalletConnectionError]
                 /\ _session' = Undefined
                 /\ _network' = _network
      ]_vars

\* a connect() has failed because the modal closed without a session
C3_Witness ==
    \E c \in Callers :
        /\ pc[c] = "done" /\ ret[c].op = "connect"
        /\ ret[c].error = WalletConnectionError
        /\ _session = Undefined /\ Len(modals) > 0

\* C4: when a connect() resolves, the facade's session is the provider's session it
\* adopted, the value is the address of that session's first account, the facade's
\* network is what getDefaultChainFromSession gives for that session and the network
\* before, and the provider's default chain is that identifier.
C4_ResolvedConnect ==
    [][\A c \in Callers :
          ConnectResolves(c) =>
              LET adopted == IF pc[c] = "modalResolved" THEN local[c].session
                             ELSE ProviderSession(_UniversalProvider)
              IN  /\ adopted # Undefined
                  /\ _session' = adopted
                  /\ ProviderSession(_UniversalProvider') = adopted
                  /\ ret'[c].value = [publicKey |-> parseAccountId(adopted.accounts[1]).address]
                  /\ getDefaultChainFromSession(adopted, _network).ok
                  /\ _network' = getDefaultChainFromSession(adopted, _network).chain
                  /\ _UniversalProvider'.defaultChain = _network'
      ]_vars

\* a connect() has resolved through the modal, falling back to the deprecated identifier
C4_Witness ==
    \E c \in Callers :
        /\ pc[c] = "done" /\ ret[c].op = "connect" /\ ret[c].status = "resolved"
        /\ _session = ProviderSession(_UniversalProvider)
        /\ _network # requested
        /\ _UniversalProvider.defaultChain = _network
        /\ Len(modals) > 0


\* the wallet's session advertises the deprecated identifier of the requested network
\* and no other chain
DeprecatedOnlyWallet ==
    /\ requested \in {Chains.Mainnet, Chains.Devnet}
    /\ wallet.solana
    /\ \A i \in DOMAIN SessionChains(wallet) :
           SessionChains(wallet)[i] = getChainsFromChainId(requested).chains[2]

\* C5: with a wallet whose session advertises only the deprecated identifier, the
\* identifier a connect() hands to getDefaultChainFromSession is the identifier
\* requested at construction, in the first connect() and in every later one.
C5_ResolvesRequested ==
    (DeprecatedOnlyWallet /\ selected # NoChain) => selected = requested

\* C6: when a connect() resolves, the facade's network is the chain of one of the
\* adopted session's solana accounts.
C6_NetworkAdvertised ==
    [][\A c \in Callers :
          ConnectResolves(c) =>
              \E i \in DOMAIN SessionChains(_session') : SessionChains(_session')[i] = _network'
      ]_vars

\* C7: with a wallet whose session has solana accounts, once a disconnect() has
\* completed and until a connect() resolves, the session accessor, the publicKey
\* accessor and every sign and send operation fail with ClientNotInitializedError.
C7_ClearedUntilConnect ==
    (wallet.solana /\ disconnected) =>
        /\ session(_session) = Thrown(ClientNotInitializedError)
        /\ publicKey(_UniversalProvider, _session) = Thrown(ClientNotInitializedError)
        /\ \A method \in Methods : SignPrefix(method) = Thrown(ClientNotInitializedError)

\* caller c calls disconnect() in this step
DisconnectCalled(c) ==
    /\ pc[c] = "idle" /\ pc'[c] # "idle"
    /\ local'[c].op = "disconnect" \/ ret'[c].op = "disconnect"

\* C8: a disconnect() called while the provider is undefined or holds no session
\* fails at once with ClientNotInitializedError, without reaching the modal's
\* disconnect, and leaves the facade's session and network as they were.
C8_DisconnectWithoutSession ==
    [][\A c \in Callers :
          (DisconnectCalled(c) /\ ProviderSession(_UniversalProvider) = Undefined) =>
              /\ pc'[c] = "done"
              /\ ret'[c] = [op |-> "disconnect", status |-> "rejected", value |-> Undefined,
                            error |-> ClientNotInitializedError]
              /\ _session' = _session /\ _network' = _network
              /\ _modal' = _modal /\ modals' = modals
              /\ _UniversalProvider' = _UniversalProvider
      ]_vars

\* a disconnect() has failed while the facade held a session the provider had lost
C8_Witness ==
    \E c \in Callers :
        /\ pc[c] = "done" /\ ret[c].op = "disconnect"
        /\ ret[c].error = ClientNotInitializedError
        /\ _session # Undefined

\* C9: with a wallet whose session has solana accounts, the session accessor and the
\* publicKey accessor fail with ClientNotInitializedError whenever the provider, the
\* provider's session or the facade's session is absent; the client accessor fails
\* with it whenever the provider is absent.
C9_AccessorsFail ==
    /\ (/\ wallet.solana
        /\ \/ _UniversalProvider = Undefined
           \/ ProviderSession(_UniversalProvider) = Undefined
           \/ _session = Undefined) =>
           /\ session(_session) = Thrown(ClientNotInitializedError)
           /\ publicKey(_UniversalProvider, _session) = Thrown(ClientNotInitializedError)
    /\ _UniversalProvider = Undefined =>
           client(_UniversalProvider) = Thrown(ClientNotInitializedError)

\* caller c calls one of the four sign and send operations in this step
SignCalled(c) ==
    /\ pc[c] = "idle" /\ pc'[c] # "idle"
    /\ local'[c].op \in Methods \/ ret'[c].op \in Methods

\* C10: a sign or send operation called while the facade has no session fails at once
\* with ClientNotInitializedError and hands no request to the provider.
C10_SignWithoutSession ==
    [][\A c \in Callers :
          (SignCalled(c) /\ _session = Undefined) =>
              /\ pc'[c] = "done"
              /\ ret'[c].status = "rejected"
              /\ ret'[c].error = ClientNotInitializedError
              /\ sent' = sent
      ]_vars

\* signAllTransactions has failed with ClientNotInitializedError after a disconnect()
C10_Witness ==
    \E c \in Callers :
        /\ pc[c] = "done" /\ ret[c].op = WalletConnectRPCMethods.signAllTransactions
        /\ ret[c].error = ClientNotInitializedError
        /\ _session = Undefined /\ disconnected
        /\ sent[c] = <<>>

\* the operation caller c calls in this step
CalledOp(c) == IF pc'[c] = "done" THEN ret'[c].op ELSE local'[c].op

\* C11: with a session present, signTransaction, signMessage and
\* signAndSendTransaction fail with WalletConnectFeatureNotSupportedError naming their
\* own RPC method when the session's solana method list omits the method or the
\* session has no solana namespace; no request is handed to the provider.
C11_FeatureNotSupported ==
    [][\A c \in Callers, method \in SingleMethods :
          (/\ SignCalled(c) /\ CalledOp(c) = method
           /\ _session # Undefined
           /\ ~(_session.solana /\ method \in _session.methods)) =>
              /\ pc'[c] = "done"
              /\ ret'[c].status = "rejected"
              /\ ret'[c].error.name = "WalletConnectFeatureNotSupportedError"
              /\ ret'[c].error.method = method
              /\ sent' = sent
      ]_vars

\* signMessage has failed on a session without a solana namespace, naming
\* solana_signMessage
C11_Witness ==
    \E c \in Callers :
        /\ pc[c] = "done" /\ ret[c].op = WalletConnectRPCMethods.signMessage
        /\ _session # Undefined /\ ~_session.solana
        /\ ret[c].status = "rejected"
        /\ ret[c].error = [name |-> "WalletConnectFeatureNotSupportedError",
                           method |-> "solana_signMessage"]

\* the facade's session lacks solana_signAllTransactions and advertises
\* solana_signTransaction
FallbackSession ==
    /\ _session # Undefined /\ _session.solana
    /\ WalletConnectRPCMethods.signAllTransactions \notin _session.methods
    /\ WalletConnectRPCMethods.signTransaction \in _session.methods

\* the request signTransaction(transaction) hands to the provider
SignTransactionRequest(transaction) ==
    [method |-> "solana_signTransaction", chainId |-> _network,
     params |-> [legacyTransaction |-> IF transaction.versioned THEN Undefined ELSE transaction,
                 transaction |-> serialize(transaction)]]

\* C12: when the session lacks solana_signAllTransactions and advertises
\* solana_signTransaction, signAllTransactions sends no batch request, sends one
\* solana_signTransaction request per input transaction in input order, each only
\* after the previous one was answered, and returns a list as long as the input whose
\* i-th element is what signTransaction returns for the i-th input.
C12_SequentialFallback ==
    [][\A c \in Callers :
          /\ (SignCalled(c) /\ CalledOp(c) = WalletConnectRPCMethods.signAllTransactions
                  /\ FallbackSession) =>
                 \/ /\ pc'[c] = "done" /\ ret'[c].status = "resolved"
                    /\ ret'[c].value.transactions = <<>>
                    /\ sent'[c] = <<>>
                 \/ /\ pc'[c] = "request" /\ local'[c].fallback
                    /\ local'[c].transactions # <<>>
                    /\ sent'[c] = <<SignTransactionRequest(local'[c].transactions[1])>>
          /\ (/\ pc[c] = "request" /\ pc'[c] \in {"request", "done"}
              /\ local[c].op = WalletConnectRPCMethods.signAllTransactions
              /\ FallbackSession) =>
                 LET transactions == local[c].transactions
                 IN  /\ Len(sent'[c]) <= Len(transactions)
                     /\ Len(sent'[c]) <= Len(replies'[c]) + 1
                     /\ \A i \in DOMAIN sent'[c] :
                            sent'[c][i] = SignTransactionRequest(transactions[i])
                     /\ Len(local[c].signedTransactions) = Len(replies[c])
                     /\ (replies'[c] # replies[c]) =>
                            LET i == Len(replies'[c])
                                r == signTransactionReturn(transactions[i], replies'[c][i])
                            IN  IF ~r.ok
                                THEN /\ pc'[c] = "done" /\ ret'[c].status = "rejected"
                                     /\ ret'[c].error = r.error
                                ELSE IF i < Len(transactions)
                                THEN /\ pc'[c] = "request"
                                     /\ local'[c].signedTransactions =
                                            Append(local[c].signedTransactions, r.value)
                                ELSE /\ pc'[c] = "done" /\ ret'[c].status = "resolved"
                                     /\ Len(sent'[c]) = Len(transactions)
                                     /\ ret'[c].value.transactions =
                                            Append(local[c].signedTransactions, r.value)
      ]_vars

\* the fallback has signed a versioned and a legacy transaction with two requests: the
\* first result is the decoded reply, the second the input with the signature attached
C12_Witness ==
    \E c \in Callers :
        /\ pc[c] = "done" /\ ret[c].op = WalletConnectRPCMethods.signAllTransactions
        /\ FallbackSession
        /\ ret[c].status = "resolved"
        /\ Len(sent[c]) = 2 /\ Len(replies[c]) = 2
        /\ \A i \in 1..2 : sent[c][i].method = "solana_signTransaction"
        /\ Len(ret[c].value.transactions) = 2
        /\ replies[c][1].transaction # Undefined /\ replies[c][2].transaction = Undefined
        /\ ret[c].value.transactions[1].versioned
        /\ ret[c].value.transactions[1].signatures # {}
        /\ ~ret[c].value.transactions[2].versioned
        /\ \E s \in ret[c].value.transactions[2].signatures : s.signature = [bytes |-> "sig"]

\* C13: signAllTransactions recovers only from the feature-not-supported error of its
\* own capability check: a missing session, a rejection of the batch request and a
\* failure to decode the batch reply are surfaced as the same error with no
\* solana_signTransaction request sent, and an error raised inside the sequential
\* fallback (feature-not-supported for solana_signTransaction included) is surfaced
\* as it is.
C13_RecoversOnlyFromNotSupported ==
    [][\A c \in Callers :
          LET signAll == WalletConnectRPCMethods.signAllTransactions
              signOne == WalletConnectRPCMethods.signTransaction
              batch == pc[c] = "request" /\ local[c].op = signAll /\ ~local[c].fallback
              fallback == pc[c] = "request" /\ local[c].op = signAll /\ local[c].fallback
              rejects(error) == /\ pc'[c] = "done" /\ ret'[c].status = "rejected"
                                /\ ret'[c].error = error
                                /\ sent'[c] = sent[c]
          IN  /\ (SignCalled(c) /\ CalledOp(c) = signAll /\ _session = Undefined) =>
                     rejects([name |-> "ClientNotInitializedError"])
              /\ (/\ SignCalled(c) /\ CalledOp(c) = signAll /\ _session # Undefined
                  /\ ~(_session.solana /\ signAll \in _session.methods)
                  /\ ~(_session.solana /\ signOne \in _session.methods)) =>
                     \/ rejects([name |-> "WalletConnectFeatureNotSupportedError",
                                 method |-> "solana_signTransaction"])
                     \/ /\ pc'[c] = "done" /\ ret'[c].status = "resolved"
                        /\ ret'[c].value.transactions = <<>>    \* nothing to sign
                        /\ sent'[c] = sent[c]
              /\ (batch /\ pc'[c] # "request" /\ replies'[c] = replies[c]) =>
                     rejects([name |-> "ProviderError"])
              /\ (batch /\ replies'[c] # replies[c]) =>
                     LET r == signAllTransactionsReturn(local[c].transactions,
                                                        replies'[c][Len(replies'[c])])
                     IN  /\ pc'[c] = "done" /\ sent'[c] = sent[c]
                         /\ ~r.ok => rejects(r.error)
              /\ (fallback /\ pc'[c] # "request" /\ replies'[c] = replies[c]) =>
                     rejects([name |-> "ProviderError"])
      ]_vars

\* the provider has rejected the batch request of a session that also advertises
\* solana_signTransaction: the rejection is surfaced and only the batch request was sent
C13_Witness ==
    \E c \in Callers :
        /\ pc[c] = "done" /\ ret[c].op = WalletConnectRPCMethods.signAllTransactions
        /\ ret[c].status = "rejected" /\ ret[c].error = [name |-> "ProviderError"]
        /\ _session # Undefined
        /\ WalletConnectRPCMethods.signTransaction \in _session.methods
        /\ Len(sent[c]) = 1 /\ sent[c][1].method = "solana_signAllTransactions"
        /\ Len(sent[c][1].params.transactions) = 2

\* the batch reply holds fewer transactions than the input: the failure to decode is
\* surfaced and only the batch request was sent
C13_WitnessDecode ==
    \E c \in Callers :
        /\ pc[c] = "done" /\ ret[c].op = WalletConnectRPCMethods.signAllTransactions
        /\ ret[c].status = "rejected" /\ ret[c].error = [name |-> "TypeError"]
        /\ Len(sent[c]) = 1 /\ Len(replies[c]) = 1
        /\ Len(replies[c][1].transactions) < Len(sent[c][1].params.transactions)

\* a modal is created in this step: initModal() has called getConnectParams(_network)
ModalCreated == Len(modals') = Len(modals) + 1

\* C14: for each of the four chain identifiers getChainsFromChainId returns the
\* sequence [current, deprecated] of the same network, the current identifier first.
C14_ChainPair ==
    [][ModalCreated =>
          LET chains == modals'[Len(modals')].namespaces.chains
          IN  /\ _network \in {Chains.Mainnet, Chains.Deprecated_Mainnet} =>
                     chains = <<Chains.Mainnet, Chains.Deprecated_Mainnet>>
              /\ _network \in {Chains.Devnet, Chains.Deprecated_Devnet} =>
                     chains = <<Chains.Devnet, Chains.Deprecated_Devnet>>
      ]_vars

\* the modal of a facade constructed for Deprecated_Devnet proposes
\* [Devnet, Deprecated_Devnet]
C14_Witness ==
    /\ requested = Chains.Deprecated_Devnet
    /\ _modal # 0
    /\ modals[_modal].namespaces.chains =
           <<<<"solana", "EtWTRABZaYq6iMfeYKouRu166VU2xqa1">>,
             <<"solana", "8E9rvCKLFQia2Y35HXjjpWzj8weVo44K">>>>

\* C15: getChainsFromChainId writes the deprecated-chain warning when, and only when,
\* the requested identifier is Deprecated_Mainnet or Deprecated_Devnet; for the current
\* Mainnet and Devnet identifiers it writes no warning.
C15_WarnsOnlyForDeprecated ==
    [][ModalCreated =>
          /\ _network \in {Chains.Mainnet, Chains.Devnet} => console' = console
          /\ _network = Chains.Deprecated_Mainnet => "mainnet" \in console'
          /\ _network = Chains.Deprecated_Devnet => "devnet" \in console'
      ]_vars

\* connect() of caller c settles in this step after it has adopted a session: it has
\* called getDefaultChainFromSession(_session', _network)
AdoptedBy(c) ==
    /\ pc[c] # "done" /\ pc'[c] = "done" /\ ret'[c].op = "connect"
    /\ _session' # Undefined

\* the deprecated identifier of the network of a current identifier
Deprecated(chain) ==
    IF chain = Chains.Mainnet THEN Chains.Deprecated_Mainnet ELSE Chains.Deprecated_Devnet

\* C16: for a requested identifier of current Mainnet or current Devnet and any
\* session, getDefaultChainFromSession returns the current identifier without a
\* warning if one of the session's solana accounts advertises it, and otherwise
\* returns the deprecated identifier of the same network and writes the
\* wallet-should-upgrade warning.
C16_DefaultChain ==
    [][\A c \in Callers :
          (AdoptedBy(c) /\ _network \in {Chains.Mainnet, Chains.Devnet}) =>
              IF \E i \in DOMAIN _session'.accounts :
                     <<_session'.accounts[i][1], _session'.accounts[i][2]>> = _network
              THEN _network' = _network /\ console' = console
              ELSE _network' = Deprecated(_network) /\ "wallet" \in console'
      ]_vars

\* the two identifiers of the network of a known identifier
Network(chain) ==
    IF chain \in {Chains.Mainnet, Chains.Deprecated_Mainnet}
    THEN {Chains.Mainnet, Chains.Deprecated_Mainnet}
    ELSE {Chains.Devnet, Chains.Deprecated_Devnet}

\* C17: getDefaultChainFromSession fails only for an identifier of neither known
\* network: for each of the four known identifiers and a session with a solana
\* namespace it returns an identifier of the same network, so that the connect() that
\* called it does not fail by it.
C17_KnownIdentifiersResolve ==
    [][\A c \in Callers :
          (AdoptedBy(c) /\ _session'.solana /\ _network \in ChainIDs) =>
              /\ ret'[c].status = "resolved"
              /\ _network' \in Network(_network)
              /\ _UniversalProvider'.defaultChain = _network'
      ]_vars

\* C18: the connect gate is held by the facade only between construction and the
\* provider-ready event: the stored resolver is called by the one step that stores
\* the provider, and once provider initialization has completed the facade holds no
\* resolver.
C18_GateDiscarded ==
    /\ initClient = "resolved" => _ConnectQueueResolver = 0
    /\ initClient = "resolved" <=> _UniversalProvider # Undefined

\* the transaction the bytes of a serialized transaction decode to, as an instance of
\* VersionedTransaction (versioned) or of Transaction
Decoded(serialized, versioned) ==
    [versioned |-> versioned, version |-> serialized.base64.version,
     signatures |-> serialized.base64.signatures]

\* C19: after the provider's reply signTransaction returns the provider's transaction,
\* decoded as versioned exactly when the input was versioned, whenever the reply
\* carries a transaction; only when the reply carries none it attaches the reply's
\* signature under the facade's public key to the input transaction and returns it.
C19_SignTransactionResult ==
    [][\A c \in Callers :
          (/\ pc[c] = "request" /\ local[c].op = WalletConnectRPCMethods.signTransaction
           /\ replies'[c] # replies[c]) =>
              LET reply == replies'[c][Len(replies'[c])]
                  transaction == local[c].transaction
              IN  /\ pc'[c] = "done"
                  /\ IF reply.transaction # Undefined
                     THEN \/ /\ ret'[c].status = "resolved"
                             /\ ret'[c].value = Decoded(reply.transaction,
                                                        transaction.versioned)
                          \/ /\ ret'[c].status = "rejected"    \* Transaction.from on v0 bytes
                             /\ ret'[c].error = [name |-> "Error", message |-> "deserialize"]
                             /\ ~transaction.versioned
                             /\ reply.transaction.base64.version = "v0"
                     ELSE \/ /\ ret'[c].status = "resolved"
                             /\ ret'[c].value =
                                    [transaction EXCEPT !.signatures =
                                        @ \cup {[publicKey |-> _session.accounts[1][3],
                                                 signature |-> [bytes |-> reply.signature]]}]
                          \/ /\ ret'[c].status = "rejected"    \* the session was deleted
                             /\ ret'[c].error = [name |-> "ClientNotInitializedError"]
                             /\ ProviderSession(_UniversalProvider) = Undefined
      ]_vars

\* signTransaction of a versioned transaction has returned the provider's transaction,
\* decoded as a versioned one, from a reply that also carried a signature
C19_Witness ==
    \E c \in Callers :
        /\ pc[c] = "done" /\ ret[c].op = WalletConnectRPCMethods.signTransaction
        /\ ret[c].status = "resolved"
        /\ sent[c][1].params.legacyTransaction = Undefined
        /\ replies[c][1].transaction # Undefined
        /\ replies[c][1].transaction.base64.version = "v0"
        /\ ret[c].value.versioned /\ ret[c].value.version = "v0"
        /\ ret[c].value.signatures = replies[c][1].transaction.base64.signatures

\* signTransaction of a legacy transaction has returned its input with the reply's
\* signature attached, from a reply without a transaction
C19_WitnessSignature ==
    \E c \in Callers :
        /\ pc[c] = "done" /\ ret[c].op = WalletConnectRPCMethods.signTransaction
        /\ ret[c].status = "resolved"
        /\ replies[c][1].transaction = Undefined
        /\ ~ret[c].value.versioned
        /\ ret[c].value.signatures = {[publicKey |-> 1, signature |-> [bytes |-> "sig"]]}

\* the facade's session advertises solana_signAllTransactions
BatchSession ==
    /\ _session # Undefined /\ _session.solana
    /\ WalletConnectRPCMethods.signAllTransactions \in _session.methods

\* C20: when the session advertises solana_signAllTransactions, signAllTransactions
\* sends exactly one batch request with the serialized inputs in input order and
\* returns a list as long as the input whose i-th element is the i-th returned
\* transaction, decoded as versioned exactly when the i-th input was versioned.
C20_BatchResult ==
    [][\A c \in Callers :
          /\ (SignCalled(c) /\ CalledOp(c) = WalletConnectRPCMethods.signAllTransactions
                  /\ BatchSession) =>
                 /\ pc'[c] = "request" /\ ~local'[c].fallback
                 /\ sent'[c] =
                        <<[method |-> "solana_signAllTransactions", chainId |-> _network,
                           params |-> [transactions |->
                                          [i \in DOMAIN local'[c].transactions |->
                                              serialize(local'[c].transactions[i])]]]>>
          /\ (/\ pc[c] = "request" /\ pc'[c] # "request"
              /\ local[c].op = WalletConnectRPCMethods.signAllTransactions
              /\ BatchSession) =>
                 LET transactions == local[c].transactions
                 IN  /\ ~local[c].fallback
                     /\ pc'[c] = "done" /\ sent'[c] = sent[c] /\ Len(sent[c]) = 1
                     /\ ret'[c].status = "resolved" =>
                            LET reply == replies'[c][1]
                                signed == ret'[c].value.transactions
                            IN  /\ Len(replies'[c]) = 1
                                /\ DOMAIN signed = DOMAIN transactions
                                /\ \A i \in DOMAIN transactions :
                                       signed[i] = Decoded(reply.transactions[i],
                                                           transactions[i].versioned)
      ]_vars

\* the batch of a versioned and a legacy transaction has been answered with a v0 and a
\* legacy transaction: one request, and the results are a VersionedTransaction and a
\* Transaction in that order
C20_Witness ==
    \E c \in Callers :
        /\ pc[c] = "done" /\ ret[c].op = WalletConnectRPCMethods.signAllTransactions
        /\ BatchSession
        /\ ret[c].status = "resolved"
        /\ Len(sent[c]) = 1 /\ sent[c][1].method = "solana_signAllTransactions"
        /\ Len(sent[c][1].params.transactions) = 2
        /\ sent[c][1].params.transactions[1].base64.version = "v0"
        /\ sent[c][1].params.transactions[2].base64.version = "legacy"
        /\ Len(ret[c].value.transactions) = 2
        /\ ret[c].value.transactions[1].versioned
        /\ ~ret[c].value.transactions[2].versioned
        /\ ret[c].value.transactions[2].signatures # {}

\* config.options holds no project id, or an empty one
NoProjectId == "projectId" \notin DOMAIN options \/ options.projectId = ""

\* C21: constructing the facade with an absent or empty projectId throws from the
\* constructor, so that no facade is obtained: no operation of it is ever called, and
\* it never holds a session or a modal.
C21_ProjectIdRequired ==
    NoProjectId =>
        /\ ~constructor(options).ok
        /\ constructor(options).error.name = "Error"
        /\ \A c \in Callers : pc[c] = "idle" /\ ret[c].status = "pending"
        /\ _session = Undefined /\ _modal = 0 /\ _ConnectQueueResolver = 0

\* the constructor has thrown for an empty project id; the provider initialization it
\* had started has completed none the less
C21_Witness ==
    /\ options = [projectId |-> ""]
    /\ initClient = "resolved" /\ _UniversalProvider # Undefined
    /\ \A c \in Callers : pc[c] = "idle"

\* C22: every RPC request the facade hands to the provider names a method that the
\* facade's session advertises in its solana method list in the run of code that
\* checks and sends it, and is sent only while the facade holds a session; so are the
\* solana_signTransaction requests of the signAllTransactions fallback.
C22_RequestsAdvertised ==
    [][\A c \in Callers :
          (sent'[c] # sent[c] /\ sent'[c] # <<>>) =>
              /\ Len(sent'[c]) = Len(sent[c]) + 1
              /\ _session # Undefined /\ _session' = _session
              /\ _session.solana
              /\ sent'[c][Len(sent'[c])].method \in _session.methods
      ]_vars

\* the fallback of signAllTransactions has sent its second solana_signTransaction
\* request on a session that advertises the method
C22_Witness ==
    \E c \in Callers :
        /\ pc[c] = "request" /\ local[c].op = WalletConnectRPCMethods.signAllTransactions
        /\ local[c].fallback
        /\ Len(sent[c]) = 2 /\ sent[c][2].method = "solana_signTransaction"
        /\ _session # Undefined
        /\ "solana_signTransaction" \in _session.methods
        /\ "solana_signAllTransactions" \notin _session.methods

\* C23: with a wallet whose session has solana accounts, whenever connect() rejects,
\* because the modal closed without a session or because the chain resolution failed
\* on the adopted session, the facade holds no session afterwards.
C23_FailedConnectHoldsNoSession ==
    [][\A c \in Callers :
          (/\ wallet.solana
           /\ pc[c] # "done" /\ pc'[c] = "done"
           /\ ret'[c].op = "connect" /\ ret'[c].status = "rejected") =>
              _session' = Undefined
      ]_vars

\* C24: in every reachable state the facade's network identifier is one of the two
\* identifiers, current or deprecated, of the network requested at construction, and
\* so is the default chain handed to the provider.
C24_NetworkFamily ==
    /\ _network \in Network(requested)
    /\ (_UniversalProvider # Undefined /\ _UniversalProvider.defaultChain # NoChain) =>
           _UniversalProvider.defaultChain \in Network(requested)

\* a facade constructed for Devnet has connected to a wallet that advertises another
\* identifier, and its network is now Deprecated_Devnet
C24_Witness ==
    /\ requested = <<"solana", "EtWTRABZaYq6iMfeYKouRu166VU2xqa1">>
    /\ _network = <<"solana", "8E9rvCKLFQia2Y35HXjjpWzj8weVo44K">>
    /\ _session # Undefined
    /\ _UniversalProvider.defaultChain = _network

\* C25: when connect() is called two or more times before provider initialization
\* completes, the gate keeps only the resolver of the most recent call: the step that
\* completes the initialization releases exactly that call, and every other call
\* suspended at the gate stays suspended in every later step.
C25_LastResolverWins ==
    [][/\ \A c \in Callers :
             (ConnectCalled(c) /\ _UniversalProvider = Undefined) =>
                 /\ pc'[c] = "gate"
                 /\ _ConnectQueueResolver' = c
       /\ (initClient = "pending" /\ initClient' = "resolved") =>
             \A c \in GateWaiters :
                 pc'[c] = IF c = _ConnectQueueResolver THEN "gateResolved" ELSE "gate"
       /\ \A c \in Callers :
             (pc[c] = "gate" /\ initClient # "pending") => pc'[c] = "gate"
      ]_vars

\* two connect() calls waited at the gate: the later one was released and has settled,
\* the earlier one is still suspended after the initialization
C25_Witness ==
    \E c, d \in Callers :
        /\ c # d
        /\ initClient = "resolved"
        /\ pc[c] = "gate"
        /\ _ConnectQueueResolver = d
        /\ pc[d] = "done" /\ ret[d].op = "connect"

====
